---------------------------- MODULE Spec2Model ----------------------------
(***************************************************************************)
(* A model of htmlparsers/google_search.py: the GoogleHtmlParser class.   *)
(*                                                                         *)
(* A Python string is a sequence of characters; a character is a TLA+      *)
(* string naming one code point.  An optional value (None or a value) is a *)
(* sequence of length 0 or 1.  The document tree is the record of what the *)
(* XPath queries of the class return on it, in document order.             *)
(***************************************************************************)
EXTENDS Integers, Sequences, FiniteSets, TLC

VARIABLES
    tree,        \* self.tree: the parsed document
    user_agent,  \* self.user_agent
    ret,         \* what the last method call returned or raised
    first,       \* per method, what its first call returned or raised
    arg,         \* the argument handed to _clean / _normalize_dict_key
    out          \* the successive results of the text helper under check

vars == <<tree, user_agent, ret, first, arg, out>>

(***************************************************************************)
(* Bounds of the model.                                                    *)
(***************************************************************************)
MaxCleanLen == 4
MaxKeyLen == 4
MaxTokens == 3
MaxContainers == 2
MaxLinks == 2
MaxBlocks == 2
MaxAttrs == 3

(***************************************************************************)
(* Characters and strings.                                                 *)
(***************************************************************************)
\* A non-ASCII letter and a non-ASCII white space (no-break space).
EACUTE == "U+00E9"
NBSP == "U+00A0"

UpperLetters == <<"A", "B", "C", "D", "E", "F", "G", "H", "I", "J", "K", "L", "M",
                  "N", "O", "P", "Q", "R", "S", "T", "U", "V", "W", "X", "Y", "Z">>
LowerLetters == <<"a", "b", "c", "d", "e", "f", "g", "h", "i", "j", "k", "l", "m",
                  "n", "o", "p", "q", "r", "s", "t", "u", "v", "w", "x", "y", "z">>

IsUpper(c) == \E i \in 1..Len(UpperLetters) : UpperLetters[i] = c

\* str.lower() on one character.
Lower(c) ==
    IF IsUpper(c)
    THEN LowerLetters[CHOOSE i \in 1..Len(UpperLetters) : UpperLetters[i] = c]
    ELSE c

\* The characters the ascii codec can encode.
IsAscii(c) == c \notin {EACUTE, NBSP}

\* The characters str.strip() and str.split() take as white space.
IsSpace(c) == c \in {" ", "\t", "\n", "\r", NBSP}

None == <<>>
Some(v) == <<v>>

StringsUpTo(alphabet, n) == UNION {[1..k -> alphabet] : k \in 0..n}

\* content.encode('ascii', 'ignore').decode('utf-8')
AsciiIgnore(s) == SelectSeq(s, IsAscii)

RECURSIVE LStrip(_)
LStrip(s) ==
    IF s # <<>> /\ IsSpace(s[1]) THEN LStrip(Tail(s)) ELSE s

RECURSIVE RStrip(_)
RStrip(s) ==
    IF s # <<>> /\ IsSpace(s[Len(s)]) THEN RStrip(SubSeq(s, 1, Len(s) - 1)) ELSE s

\* str.strip()
Strip(s) == RStrip(LStrip(s))

\* The first white-space-free run of s (s starts with none of white space).
RECURSIVE TakeWord(_)
TakeWord(s) ==
    IF s = <<>> \/ IsSpace(s[1]) THEN <<>> ELSE <<s[1]>> \o TakeWord(Tail(s))

\* str.split(): the maximal runs of characters that are not white space.
RECURSIVE Split(_)
Split(s) ==
    LET t == LStrip(s)
        w == TakeWord(t)
    IN  IF t = <<>> THEN <<>>
        ELSE <<w>> \o Split(SubSeq(t, Len(w) + 1, Len(t)))

\* sep.join(words)
RECURSIVE Join(_, _)
Join(words, sep) ==
    IF words = <<>> THEN <<>>
    ELSE IF Len(words) = 1 THEN words[1]
    ELSE words[1] \o sep \o Join(Tail(words), sep)

\* A bug _clean could have: the white-space runs are not collapsed.
CleanStripOnly(content) ==
    IF content # None /\ content[1] # <<>>
    THEN Strip(AsciiIgnore(content[1]))
    ELSE <<>>

\* GoogleHtmlParser._clean(content); content is None or a string.
Clean(content) ==
    IF content # None /\ content[1] # <<>>
    THEN Join(Split(Strip(AsciiIgnore(content[1]))), <<" ">>)
    ELSE <<>>

\* str.replace(old, new) for single characters.
ReplaceChar(s, old, new) ==
    [i \in 1..Len(s) |-> IF s[i] = old THEN new ELSE s[i]]

\* str.replace(c, '')
RemoveChar(s, c) == SelectSeq(s, LAMBDA x : x # c)

\* str.lower()
LowerStr(s) == [i \in 1..Len(s) |-> Lower(s[i])]

RECURSIVE LStripChar(_, _)
LStripChar(s, c) ==
    IF s # <<>> /\ s[1] = c THEN LStripChar(Tail(s), c) ELSE s

RECURSIVE RStripChar(_, _)
RStripChar(s, c) ==
    IF s # <<>> /\ s[Len(s)] = c
    THEN RStripChar(SubSeq(s, 1, Len(s) - 1), c)
    ELSE s

\* str.strip(c)
StripChar(s, c) == RStripChar(LStripChar(s, c), c)

\* A bug _normalize_dict_key could have: the underscores are trimmed before
\* the colons are removed.
NormalizeDictKeyStripFirst(content) ==
    RemoveChar(LowerStr(StripChar(ReplaceChar(content, " ", "_"), "_")), ":")

\* GoogleHtmlParser._normalize_dict_key(content); content is a string.
NormalizeDictKey(content) ==
    StripChar(LowerStr(RemoveChar(ReplaceChar(content, " ", "_"), ":")), "_")

\* Python string literals as character sequences.
StrAB == <<" ", " ", "a", " ", " ", " ", "b", " ", " ">>
StrPASF == <<"P", "e", "o", "p", "l", "e", " ", "A", "l", "s", "o", " ",
             "S", "e", "a", "r", "c", "h", " ", "F", "o", "r", ":">>
KeyPASF == <<"p", "e", "o", "p", "l", "e", "_", "a", "l", "s", "o", "_",
             "s", "e", "a", "r", "c", "h", "_", "f", "o", "r">>

(***************************************************************************)
(* The document tree.                                                      *)
(*   stats  the nodes with id result-stats, each the sequence of its text  *)
(*          nodes;                                                         *)
(*   g      the div nodes of class "g", each with the href attributes      *)
(*          below it, the text nodes of the h3 elements below it, and the  *)
(*          nodes .//div/div/div[2]/div selects below it, each with its    *)
(*          text content and the number of g-review-stars elements in it;  *)
(*   kpblk  the div nodes whose class holds kp-blk, each with the text     *)
(*          nodes of its h3 elements and the href attributes of its a      *)
(*          elements;                                                      *)
(*   kc     the div nodes whose class holds kp-wholepage.                  *)
(***************************************************************************)
EmptyTree == [stats |-> <<>>, g |-> <<>>, kpblk |-> <<>>, kc |-> <<>>]

Methods == {"_get_estimated_results", "_get_organic", "_get_featured_snippet",
            "_get_knowledge_card", "get_data"}

\* What a call gives: a returned value or a raised exception.
Returned(v) == [ok |-> TRUE, exc |-> "", val |-> v]
Raised(e) == [ok |-> FALSE, exc |-> e, val |-> <<>>]

NoCall == [call |-> "", res |-> Returned(<<>>)]
NoFirst == [m \in Methods |-> None]

(***************************************************************************)
(* _get_estimated_results                                                  *)
(***************************************************************************)
Digits == <<"0", "1", "2", "3", "4", "5", "6", "7", "8", "9">>

IsDigit(c) == \E i \in 1..Len(Digits) : Digits[i] = c

DigitValue(c) == (CHOOSE i \in 1..Len(Digits) : Digits[i] = c) - 1

\* The digits of an integer literal, after its sign.
LiteralBody(s) == IF s # <<>> /\ s[1] \in {"+", "-"} THEN Tail(s) ELSE s

\* The strings int() accepts: a sign, then digits, single underscores
\* between digits allowed.
IsIntLiteral(s) ==
    LET b == LiteralBody(s)
    IN  /\ b # <<>>
        /\ \A i \in 1..Len(b) :
              \/ IsDigit(b[i])
              \/ /\ b[i] = "_"
                 /\ 1 < i /\ i < Len(b)
                 /\ IsDigit(b[i - 1]) /\ IsDigit(b[i + 1])

RECURSIVE DigitsValue(_, _)
DigitsValue(b, acc) ==
    IF b = <<>> THEN acc
    ELSE DigitsValue(Tail(b), IF b[1] = "_" THEN acc ELSE 10 * acc + DigitValue(b[1]))

\* int(s) for a string int() accepts.
IntValue(s) ==
    IF s[1] = "-" THEN 0 - DigitsValue(LiteralBody(s), 0)
    ELSE DigitsValue(LiteralBody(s), 0)

RECURSIVE Flatten(_)
Flatten(seqs) == IF seqs = <<>> THEN <<>> ELSE seqs[1] \o Flatten(Tail(seqs))

\* self.tree.xpath('//*[@id="result-stats"]/text()')
StatsTextNodes(t) == Flatten(t.stats)

\* A bug _get_estimated_results could have: a missing stats node is an error.
EstimatedResultsStrict(t) ==
    LET estimated_el == StatsTextNodes(t)
    IN  IF Len(estimated_el) > 0
        THEN LET tokens == Split(estimated_el[1])
             IN  IF Len(tokens) < 2 THEN Raised("IndexError")
                 ELSE LET n == RemoveChar(tokens[2], ",")
                      IN  IF IsIntLiteral(n) THEN Returned(IntValue(n))
                          ELSE Raised("ValueError")
        ELSE Raised("IndexError")

\* GoogleHtmlParser._get_estimated_results()
EstimatedResults(t) ==
    LET estimated_el == StatsTextNodes(t)
    IN  IF Len(estimated_el) > 0
        THEN LET tokens == Split(estimated_el[1])
             IN  IF Len(tokens) < 2 THEN Raised("IndexError")
                 ELSE LET n == RemoveChar(tokens[2], ",")
                      IN  IF IsIntLiteral(n) THEN Returned(IntValue(n))
                          ELSE Raised("ValueError")
        ELSE Returned(0)

(***************************************************************************)
(* _get_organic                                                            *)
(***************************************************************************)
\* A bug _get_organic could have: the first candidate is the one inspected.
PickSnippetsByFirst(snippets) ==
    IF Len(snippets) = 1
    THEN [snippet |-> Some(snippets[1].text), rich_snippet |-> None]
    ELSE IF Len(snippets) > 1
    THEN IF snippets[1].stars > 0
         THEN [snippet |-> Some(snippets[1].text), rich_snippet |-> Some(snippets[2].text)]
         ELSE [snippet |-> Some(snippets[2].text), rich_snippet |-> Some(snippets[1].text)]
    ELSE [snippet |-> None, rich_snippet |-> None]

\* The snippet and rich_snippet locals of one pass of the loop; Python's
\* snippets[0] and snippets[1] are snippets[1] and snippets[2] here.
PickSnippets(snippets) ==
    IF Len(snippets) = 1
    THEN [snippet |-> Some(snippets[1].text), rich_snippet |-> None]
    ELSE IF Len(snippets) > 1
    THEN IF snippets[2].stars > 0
         THEN [snippet |-> Some(snippets[1].text), rich_snippet |-> Some(snippets[2].text)]
         ELSE [snippet |-> Some(snippets[2].text), rich_snippet |-> Some(snippets[1].text)]
    ELSE [snippet |-> None, rich_snippet |-> None]

\* A bug _get_organic could have: the extracted text is stored as found.
OrganicResultRaw(g) ==
    LET p == PickSnippets(g.snippets)
    IN  IF g.hrefs = <<>> \/ g.h3 = <<>> THEN Raised("IndexError")
        ELSE Returned([url |-> Some(g.hrefs[1]),
                       title |-> Some(g.h3[1]),
                       snippet |-> p.snippet,
                       rich_snippet |-> p.rich_snippet])

\* The res dict of one pass of the loop (a value of the dict is None or a
\* string), or the IndexError of [0] on an empty XPath result.
OrganicResult(g) ==
    LET p == PickSnippets(g.snippets)
    IN  IF g.hrefs = <<>> \/ g.h3 = <<>> THEN Raised("IndexError")
        ELSE Returned([url |-> Some(Clean(Some(g.hrefs[1]))),
                       title |-> Some(Clean(Some(g.h3[1]))),
                       snippet |-> Some(Clean(p.snippet)),
                       rich_snippet |-> Some(Clean(p.rich_snippet))])

\* The loop over the containers: an exception ends it.
RECURSIVE OrganicLoop(_, _)
OrganicLoop(gs, organic) ==
    IF gs = <<>> THEN Returned(organic)
    ELSE LET r == OrganicResult(gs[1])
         IN  IF r.ok THEN OrganicLoop(Tail(gs), Append(organic, r.val)) ELSE r

\* GoogleHtmlParser._get_organic()
Organic(t) == OrganicLoop(t.g, <<>>)

(***************************************************************************)
(* _get_featured_snippet                                                   *)
(***************************************************************************)
\* A bug _get_featured_snippet could have: the first link is taken.
FeaturedSnippetFirstLink(t) ==
    IF Len(t.kpblk) > 0
    THEN LET snipp_el == t.kpblk[1]
         IN  IF Len(snipp_el.h3) > 0 /\ Len(snipp_el.hrefs) > 0
             THEN Returned(Some([title |-> snipp_el.h3[1], url |-> snipp_el.hrefs[1]]))
             ELSE Returned(None)
    ELSE Returned(None)

\* GoogleHtmlParser._get_featured_snippet()
FeaturedSnippet(t) ==
    IF Len(t.kpblk) > 0
    THEN LET snipp_el == t.kpblk[1]
             heading == snipp_el.h3
             url == snipp_el.hrefs
         IN  IF Len(heading) > 0 /\ Len(url) > 0
             THEN Returned(Some([title |-> heading[1], url |-> url[Len(url)]]))
             ELSE Returned(None)
    ELSE Returned(None)

(***************************************************************************)
(* _get_knowledge_card                                                     *)
(*                                                                         *)
(* A kp-wholepage node is the record of the .//h2/span nodes (title), the  *)
(* div nodes whose data-attrid holds "subtitle", the kno-rdesc spans       *)
(* (description) and the div nodes whose data-attrid holds ":/" (attrs).   *)
(* Each of the latter is the record of its span nodes, its role=heading    *)
(* divs (each with its a elements), its role=list divs (each the sequence  *)
(* of its role=heading items: number of children, title divs, divs) and    *)
(* its data-reltype=sideways divs.  Nodes are given by their text content. *)
(***************************************************************************)
\* The dict {key: value}.
Dict1(key, value) == [k \in {key} |-> value]

\* The loop over the items of the role=list divs, in document order.
RECURSIVE ListItemsLoop(_, _)
ListItemsLoop(items, dict_items) ==
    IF items = <<>> THEN Returned(dict_items)
    ELSE LET item == items[1]
         IN  IF item.children > 0
             THEN IF item.titles = <<>> \/ Len(item.divs) < 2
                  THEN Raised("IndexError")
                  ELSE ListItemsLoop(Tail(items),
                           Append(dict_items,
                                  [title |-> item.titles[1], subtitle |-> item.divs[2]]))
             ELSE ListItemsLoop(Tail(items), dict_items)

\* The sideways texts appended to dict_items.
SidewaysItems(el) == [i \in 1..Len(el.sideways) |-> [text |-> el.sideways[i]]]

\* One pass of the loop over the attribute nodes: the dict appended to
\* more_info, None when nothing is appended, or the exception raised.
MoreInfoEntry(el) ==
    LET el_parts == el.spans
    IN  IF Len(el_parts) = 2
        THEN Returned(Some(Dict1(NormalizeDictKey(el_parts[1]), [text |-> el_parts[2]])))
        ELSE IF Len(el.headings) > 0 /\ Len(el.headings[1].anchors) > 0
        THEN LET dict_key == NormalizeDictKey(el.headings[1].anchors[1])
                 listed == ListItemsLoop(Flatten(el.lists), <<>>)
             IN  IF ~listed.ok THEN listed
                 ELSE Returned(Some(Dict1(dict_key,
                          [items |-> IF dict_key = KeyPASF
                                     THEN listed.val \o SidewaysItems(el)
                                     ELSE listed.val])))
        ELSE Returned(None)

\* A bug _get_knowledge_card could have: more_info is one dict per key, an
\* entry with a key seen before overwriting the earlier one.
RECURSIVE MoreInfoLoopMerging(_, _)
MoreInfoLoopMerging(els, more_info) ==
    IF els = <<>> THEN Returned(more_info)
    ELSE LET r == MoreInfoEntry(els[1])
         IN  IF ~r.ok THEN r
             ELSE IF r.val = None THEN MoreInfoLoopMerging(Tail(els), more_info)
             ELSE LET key == CHOOSE k \in DOMAIN r.val[1] : TRUE
                      old == {j \in 1..Len(more_info) : key \in DOMAIN more_info[j]}
                  IN  IF old = {}
                      THEN MoreInfoLoopMerging(Tail(els), Append(more_info, r.val[1]))
                      ELSE MoreInfoLoopMerging(Tail(els),
                               [j \in 1..Len(more_info) |->
                                   IF j \in old THEN r.val[1] ELSE more_info[j]])

\* The loop over the attribute nodes: an exception ends it.
RECURSIVE MoreInfoLoop(_, _)
MoreInfoLoop(els, more_info) ==
    IF els = <<>> THEN Returned(more_info)
    ELSE LET r == MoreInfoEntry(els[1])
         IN  IF ~r.ok THEN r
             ELSE IF r.val = None THEN MoreInfoLoop(Tail(els), more_info)
             ELSE MoreInfoLoop(Tail(els), Append(more_info, r.val[1]))

\* GoogleHtmlParser._get_knowledge_card()
KnowledgeCard(t) ==
    IF Len(t.kc) > 0
    THEN LET kc_el == t.kc[1]
             more_info == MoreInfoLoop(kc_el.attrs, <<>>)
         IN  IF ~more_info.ok THEN more_info
             ELSE IF kc_el.title = <<>> \/ kc_el.subtitle = <<>> \/ kc_el.description = <<>>
             THEN Raised("IndexError")
             ELSE Returned(Some([title |-> kc_el.title[1],
                                 subtitle |-> kc_el.subtitle[1],
                                 description |-> kc_el.description[1],
                                 more_info |-> more_info.val]))
    ELSE Returned(None)

(***************************************************************************)
(* get_data and __init__                                                   *)
(***************************************************************************)
\* The dict {}.
EmptyDict == [k \in {} |-> k]

\* GoogleHtmlParser.get_data(): the dict display evaluates its values in
\* order, and the first exception ends it.
GetDataResult(t, ua) ==
    IF ua = "desktop"
    THEN LET e == EstimatedResults(t)
             f == FeaturedSnippet(t)
             o == Organic(t)
         IN  IF ~e.ok THEN e
             ELSE IF ~f.ok THEN f
             ELSE IF ~o.ok THEN o
             ELSE Returned([estimated_results |-> e.val,
                            featured_snippet |-> f.val,
                            organic_results |-> o.val])
    ELSE Returned(EmptyDict)

\* The user_agent attribute GoogleHtmlParser.__init__ sets.
InitUserAgent(ua) == IF ua \in {"mobile", "desktop"} THEN ua ELSE "desktop"

(***************************************************************************)
(* The method calls on one parser.  A call leaves in ret what it returned  *)
(* or raised, and in first what the method's first call did.               *)
(***************************************************************************)
Invoke(method, r) ==
    /\ ret' = [call |-> method, res |-> r]
    /\ first' = IF first[method] = None THEN [first EXCEPT ![method] = Some(r)]
                ELSE first

\* A bug _get_organic could have: the containers are consumed from the tree.
GetOrganicConsuming ==
    /\ Invoke("_get_organic", Organic(tree))
    /\ tree' = [tree EXCEPT !.g = <<>>]
    /\ UNCHANGED <<user_agent, arg, out>>

GetEstimatedResults ==
    /\ Invoke("_get_estimated_results", EstimatedResults(tree))
    /\ UNCHANGED <<tree, user_agent, arg, out>>

GetOrganic ==
    /\ Invoke("_get_organic", Organic(tree))
    /\ UNCHANGED <<tree, user_agent, arg, out>>

GetFeaturedSnippet ==
    /\ Invoke("_get_featured_snippet", FeaturedSnippet(tree))
    /\ UNCHANGED <<tree, user_agent, arg, out>>

GetKnowledgeCard ==
    /\ Invoke("_get_knowledge_card", KnowledgeCard(tree))
    /\ UNCHANGED <<tree, user_agent, arg, out>>

GetData ==
    /\ Invoke("get_data", GetDataResult(tree, user_agent))
    /\ UNCHANGED <<tree, user_agent, arg, out>>

\* GoogleHtmlParser(html_str, user_agent) on a document of trees.
Constructed(trees, agents) ==
    /\ tree \in trees
    /\ user_agent \in {InitUserAgent(ua) : ua \in agents}
    /\ ret = NoCall
    /\ first = NoFirst
    /\ arg = None
    /\ out = <<>>

(***************************************************************************)
(* The documents the parsers are constructed on.                           *)
(***************************************************************************)
TextAbout12 == <<"A", " ", "1", ",", "2", " ", "r">>

StatsTokens == {<<"A">>, <<"1", ",", "2">>, <<"-", "5">>, <<"1", "a">>, <<",">>, <<"0">>}
StatsTexts ==
    {Join(w, <<" ">>) : w \in StringsUpTo(StatsTokens, MaxTokens)}
        \cup {<<" ", "A", "\n", "\n", "7", " ">>}
StatsNodes == {<<>>} \cup {<<t>> : t \in StatsTexts}
StatsLists ==
    {<<>>} \cup {<<n>> : n \in StatsNodes}
           \cup {<<<<>>, <<TextAbout12>>>>, <<<<<<"A", " ", "3">>, <<"x">>>>>>}

Candidate(text, stars) == [text |-> text, stars |-> stars]
HrefLists == {<<>>, <<<<>>>>, <<<<" ", "u">>, <<"v">>>>}
HeadingLists == {<<>>, <<<<EACUTE>>>>, <<<<"t", " ", " ", "t">>, <<"x">>>>}
SnippetLists ==
    {<<>>,
     <<Candidate(<<"a">>, 0)>>,
     <<Candidate(<<"a">>, 0), Candidate(<<"b", "\n", "b">>, 1)>>,
     <<Candidate(<<"a">>, 1), Candidate(<<"b", "\n", "b">>, 0)>>,
     <<Candidate(<<"a">>, 2), Candidate(<<"b", "\n", "b">>, 0)>>,
     <<Candidate(<<"a">>, 0), Candidate(<<"b", "\n", "b">>, 0), Candidate(<<"c">>, 1)>>}
Containers ==
    [hrefs : HrefLists, h3 : HeadingLists, snippets : SnippetLists]

GoodContainer ==
    [hrefs |-> <<<<" ", "u">>, <<"v">>>>, h3 |-> <<<<"t", " ", " ", "t">>, <<"x">>>>,
     snippets |-> <<Candidate(<<"a">>, 0)>>]
RatedContainer ==
    [hrefs |-> <<<<" ", "u">>, <<"v">>>>, h3 |-> <<<<"t", " ", " ", "t">>, <<"x">>>>,
     snippets |-> <<Candidate(<<"a">>, 0), Candidate(<<"b", "\n", "b">>, 1)>>]
LinklessContainer ==
    [hrefs |-> <<>>, h3 |-> <<<<"t", " ", " ", "t">>, <<"x">>>>, snippets |-> <<>>]

Links == {<<"a">>, <<"b">>}
Blocks ==
    [h3 : {<<>>, <<<<"t">>>>, <<<<"t">>, <<"x">>>>}, hrefs : StringsUpTo(Links, MaxLinks)]

TextBoColon == <<"B", "o", ":">>
TextBo == <<"b", "o">>
TextPASF == <<"P", "e", "o", "p", "l", "e", " ", "a", "l", "s", "o", " ",
              "s", "e", "a", "r", "c", "h", " ", "f", "o", "r">>
GoodItem == [children |-> 2, titles |-> <<<<"t">>>>, divs |-> <<<<"t">>, <<"s">>>>]
LeafItem == [children |-> 0, titles |-> <<>>, divs |-> <<>>]
UntitledItem == [children |-> 1, titles |-> <<>>, divs |-> <<<<"s">>>>]
Attr(spans, headings, lists, sideways) ==
    [spans |-> spans, headings |-> headings, lists |-> lists, sideways |-> sideways]
Heading(anchors) == [anchors |-> anchors]
Attrs ==
    {Attr(<<TextBoColon, <<"x">>>>, <<>>, <<>>, <<>>),
     Attr(<<TextBo, <<"y">>>>, <<Heading(<<<<"z">>>>)>>, <<>>, <<>>),
     Attr(<<<<"p">>, <<"q">>, <<"r">>>>, <<>>, <<>>, <<>>),
     Attr(<<>>, <<Heading(<<>>)>>, <<>>, <<>>),
     Attr(<<>>, <<Heading(<<TextBo, <<"w">>>>), Heading(<<>>)>>,
          <<<<GoodItem, LeafItem>>, <<GoodItem>>>>, <<<<"k">>>>),
     Attr(<<<<"p">>>>, <<Heading(<<TextPASF>>)>>, <<<<GoodItem>>>>, <<<<"k">>, <<"l">>>>),
     Attr(<<>>, <<Heading(<<TextBo>>)>>, <<<<GoodItem, UntitledItem>>>>, <<>>)}
Cards ==
    [title : {<<<<"n">>>>}, subtitle : {<<>>, <<<<"m">>>>}, description : {<<<<"d">>>>},
     attrs : StringsUpTo(Attrs, MaxAttrs)]

TreesWith(stats, gs, blocks, cards) ==
    [stats : stats, g : gs, kpblk : blocks, kc : cards]

(***************************************************************************)
(* Specifications: each constructs a parser on a document drawn from a     *)
(* bounded set and then calls methods on it, in any order.                 *)
(***************************************************************************)
\* Every method, on small documents.
Init ==
    Constructed(
        TreesWith({<<>>, <<<<TextAbout12>>>>, <<<<<<"A">>>>>>},
                  {<<>>, <<GoodContainer>>, <<GoodContainer, LinklessContainer>>,
                   <<RatedContainer, GoodContainer>>},
                  {<<>>, <<[h3 |-> <<<<"t">>>>, hrefs |-> <<<<"a">>, <<"b">>>>]>>,
                   <<[h3 |-> <<>>, hrefs |-> <<<<"a">>>>]>>},
                  {<<>>,
                   <<[title |-> <<<<"n">>>>, subtitle |-> <<<<"m">>>>,
                      description |-> <<<<"d">>>>,
                      attrs |-> <<Attr(<<TextBoColon, <<"x">>>>, <<>>, <<>>, <<>>)>>]>>,
                   <<[title |-> <<>>, subtitle |-> <<<<"m">>>>,
                      description |-> <<<<"d">>>>, attrs |-> <<>>]>>}),
        {"desktop", "mobile", "tablet"})

Next ==
    \/ GetEstimatedResults
    \/ GetOrganic
    \/ GetFeaturedSnippet
    \/ GetKnowledgeCard
    \/ GetData

Spec == Init /\ [][Next]_vars

\* The estimated count, alone and through get_data.
InitStats ==
    Constructed(
        TreesWith(StatsLists, {<<>>, <<GoodContainer>>, <<LinklessContainer>>},
                  {<<>>}, {<<>>}),
        {"desktop", "mobile"})

NextStats == GetEstimatedResults \/ GetData

SpecStats == InitStats /\ [][NextStats]_vars

\* The organic results.
InitOrganic ==
    Constructed(
        TreesWith({<<>>}, StringsUpTo(Containers, MaxContainers), {<<>>}, {<<>>}),
        {"desktop"})

NextOrganic == GetOrganic

SpecOrganic == InitOrganic /\ [][NextOrganic]_vars

\* The featured snippet.
InitFeatured ==
    Constructed(
        TreesWith({<<>>}, {<<>>}, StringsUpTo(Blocks, MaxBlocks), {<<>>}),
        {"desktop"})

NextFeatured == GetFeaturedSnippet

SpecFeatured == InitFeatured /\ [][NextFeatured]_vars

\* The knowledge card.
InitCard ==
    Constructed(
        TreesWith({<<>>}, {<<>>}, {<<>>}, {<<>>} \cup {<<c>> : c \in Cards}),
        {"desktop"})

NextCard == GetKnowledgeCard

SpecCard == InitCard /\ [][NextCard]_vars

(***************************************************************************)
(* The text helpers, each applied to inputs drawn from a bounded set.      *)
(***************************************************************************)
CleanAlphabet == {"a", "b", " ", "\n", EACUTE, NBSP}
CleanInputs ==
    {None} \cup {Some(s) : s \in StringsUpTo(CleanAlphabet, MaxCleanLen) \cup {StrAB}}

KeyAlphabet == {"A", "b", " ", ":", "_", "\t"}
KeyInputs ==
    {Some(s) : s \in StringsUpTo(KeyAlphabet, MaxKeyLen)
                     \cup {StrPASF, <<" ", " ", "A", " ", "B", " ">>}}

NoParser ==
    /\ tree = EmptyTree
    /\ user_agent = "desktop"
    /\ ret = NoCall
    /\ first = NoFirst

InitClean ==
    /\ NoParser
    /\ arg \in CleanInputs
    /\ out = <<>>

\* self._clean(arg)
CallClean ==
    /\ out = <<>>
    /\ out' = <<Clean(arg)>>
    /\ UNCHANGED <<tree, user_agent, ret, first, arg>>

\* self._clean(r), r the string a call of _clean returned
CallCleanOnResult ==
    /\ Len(out) = 1
    /\ out' = Append(out, Clean(Some(out[1])))
    /\ UNCHANGED <<tree, user_agent, ret, first, arg>>

NextClean == CallClean \/ CallCleanOnResult

SpecClean == InitClean /\ [][NextClean]_vars

InitKey ==
    /\ NoParser
    /\ arg \in KeyInputs
    /\ out = <<>>

\* self._normalize_dict_key(arg)
CallNormalizeDictKey ==
    /\ out = <<>>
    /\ out' = <<NormalizeDictKey(arg[1])>>
    /\ UNCHANGED <<tree, user_agent, ret, first, arg>>

NextKey == CallNormalizeDictKey

SpecKey == InitKey /\ [][NextKey]_vars

(***************************************************************************)
(* Claims about the text helpers.                                          *)
(***************************************************************************)
\* No white space at either end, and every white space inside is one single
\* space between two other characters.
IsCollapsed(s) ==
    /\ \A i \in 1..Len(s) : IsSpace(s[i]) => s[i] = " "
    /\ s # <<>> => ~IsSpace(s[1]) /\ ~IsSpace(s[Len(s)])
    /\ \A i \in 1..(Len(s) - 1) : ~(IsSpace(s[i]) /\ IsSpace(s[i + 1]))

\* C9: _clean is total and idempotent: it returns a string for every input,
\* the empty string for None and for the empty string, "a b" for
\* "  a   b  ", a result that is trimmed and has each white-space run
\* collapsed to one space, and the same result when applied to its result.
CleanIdempotentTotal ==
    /\ Len(out) >= 1 =>
        /\ out[1] \in Seq(CleanAlphabet)
        /\ IsCollapsed(out[1])
        /\ (arg = None \/ arg = Some(<<>>)) => out[1] = <<>>
        /\ arg = Some(StrAB) => out[1] = <<"a", " ", "b">>
    /\ Len(out) = 2 => out[2] = out[1]

\* _clean was applied twice to an input with white-space runs to collapse.
CleanTwiceOnRuns ==
    /\ arg = Some(StrAB)
    /\ Len(out) = 2
    /\ out[2] = <<"a", " ", "b">>

\* The characters of a key's source that survive in the key whatever
\* surrounds them.
IsKeeper(c) == c \notin {" ", "_", ":"}

\* The key read off the positions of the source: from its first to its last
\* keeper, colons dropped, each space one underscore, letters in lower case.
KeyByPositions(s) ==
    LET keep == {i \in 1..Len(s) : IsKeeper(s[i])}
    IN  IF keep = {} THEN <<>>
        ELSE LET lo == CHOOSE i \in keep : \A j \in keep : i <= j
                 hi == CHOOSE i \in keep : \A j \in keep : j <= i
                 mid == SelectSeq(SubSeq(s, lo, hi), LAMBDA c : c # ":")
             IN  [i \in 1..Len(mid) |->
                     IF mid[i] = " " THEN "_" ELSE Lower(mid[i])]

\* The key the specification describes: each white-space run one underscore.
KeyByRuns(s) ==
    StripChar(LowerStr(RemoveChar(Join(Split(s), <<"_">>), ":")), "_")

\* C10 as amended: _normalize_dict_key returns the text in lower case with
\* each space character replaced by one underscore (a run of n spaces gives
\* n underscores, other white space is kept), all colons removed and the
\* underscores at both ends trimmed.
KeyNormalizerPerSpace ==
    Len(out) = 1 =>
        /\ out[1] = KeyByPositions(arg[1])
        /\ \A i \in 1..Len(out[1]) : out[1][i] \notin {" ", ":"} /\ ~IsUpper(out[1][i])
        /\ out[1] # <<>> => out[1][1] # "_" /\ out[1][Len(out[1])] # "_"
        /\ arg[1] = StrPASF => out[1] = KeyPASF
        /\ arg[1] = <<" ", " ", "A", " ", "B", " ">> => out[1] = <<"a", "_", "b">>
        /\ arg[1] = <<"A", " ", " ", "b">> => out[1] = <<"a", "_", "_", "b">>

\* A key was made from a text with a run of two spaces inside.
KeyFromSpaceRun ==
    /\ Len(out) = 1
    /\ arg[1] = <<"A", " ", " ", "b">>
    /\ out[1] = <<"a", "_", "_", "b">>

\* C10 as stated: each internal white-space run becomes a single underscore.
KeyNormalizerPerRun ==
    Len(out) = 1 => out[1] = KeyByRuns(arg[1])

(***************************************************************************)
(* Claims about the extractors.                                            *)
(***************************************************************************)
Called(method) == ret.call = method

\* A container with a hyperlink and a heading.
IsWellFormed(g) == g.hrefs # <<>> /\ g.h3 # <<>>

\* C1: _get_organic skips a container that lacks a hyperlink or a heading
\* and goes on: on a document with at least one container it returns a list
\* with one result per well-formed container.
OrganicSkipsMalformed ==
    (Called("_get_organic") /\ Len(tree.g) >= 1) =>
        /\ ret.res.ok
        /\ Len(ret.res.val) =
               Cardinality({i \in 1..Len(tree.g) : IsWellFormed(tree.g[i])})

\* The second white-space-delimited token of the first stats text node, its
\* commas removed; None when there is no such token.
CountToken(t) ==
    LET texts == StatsTextNodes(t)
    IN  IF texts = <<>> \/ Len(Split(texts[1])) < 2 THEN None
        ELSE Some(RemoveChar(Split(texts[1])[2], ","))

IsNumericToken(o) == o # None /\ IsIntLiteral(o[1])

\* C2 as amended: when no node with id result-stats has a text node,
\* _get_estimated_results returns 0 and get_data does not fail for it; when
\* the first such text node has no second token, or one that is no integer
\* literal once its commas are removed, _get_estimated_results raises
\* IndexError or ValueError and get_data under the desktop profile raises
\* the same and returns no record; otherwise estimated_results is the
\* integer the token denotes, non-negative unless the token starts with a
\* minus sign.
EstimatedResultsZeroWhenMissing ==
    LET token == CountToken(tree)
        count == IF Called("get_data") THEN ret.res.val.estimated_results
                 ELSE ret.res.val
    IN  (Called("_get_estimated_results") \/ (Called("get_data") /\ user_agent = "desktop")) =>
            IF StatsTextNodes(tree) = <<>>
            THEN /\ Called("_get_estimated_results") => ret.res.ok
                 /\ ret.res.ok => count = 0
                 /\ ~ret.res.ok =>
                       \E i \in 1..Len(tree.g) : ~IsWellFormed(tree.g[i])
            ELSE IF ~IsNumericToken(token)
            THEN /\ ~ret.res.ok
                 /\ ret.res.exc = (IF token = None THEN "IndexError" ELSE "ValueError")
            ELSE /\ Called("_get_estimated_results") => ret.res.ok
                 /\ ret.res.ok =>
                       /\ count \in Int
                       /\ token[1][1] # "-" => count >= 0
                       /\ count = IntValue(token[1])

\* get_data returned a record with a zero count for a document that has no
\* result-stats node at all.
ZeroCountForMissingStats ==
    /\ Called("get_data")
    /\ user_agent = "desktop"
    /\ tree.stats = <<>>
    /\ ret.res.ok
    /\ ret.res.val.estimated_results = 0

\* C2 as stated: under the desktop profile a document whose stats node is
\* missing, or whose second token is not numeric, makes the extraction raise
\* InvalidDocumentError and return no record, and a valid document gives a
\* non-negative integer.
EstimatedResultsRaisesWhenInvalid ==
    (Called("get_data") /\ user_agent = "desktop") =>
        IF tree.stats = <<>> \/ ~IsNumericToken(CountToken(tree))
        THEN ~ret.res.ok /\ ret.res.exc = "InvalidDocumentError"
        ELSE ret.res.ok => ret.res.val.estimated_results \in Nat

AllFields == {"estimated_results", "organic_results", "featured_snippet",
              "knowledge_card", "scrolling_sections"}

\* C3: the fields of the record get_data returns follow the profile: all
\* five under the desktop profile, and organic_results under every profile.
DataFieldsFollowProfile ==
    (Called("get_data") /\ ret.res.ok) =>
        /\ user_agent = "desktop" => DOMAIN ret.res.val = AllFields
        /\ "organic_results" \in DOMAIN ret.res.val

\* The normalized text content of candidate k of container g.
CandidateText(g, k) == Some(Clean(Some(g.snippets[k].text)))

\* "Absent" for a field of a result: None, or the empty string that the
\* normalizer makes of None.
IsAbsent(v) == v = None \/ v = Some(<<>>)

\* C4 as amended: with one description candidate it is the snippet and
\* rich_snippet is the empty string; with two or more the SECOND candidate
\* is inspected: if it holds at least one g-review-stars element the first
\* candidate is the snippet and the second the rich_snippet, otherwise the
\* second is the snippet and the first the rich_snippet; with none both are
\* the empty string.
SnippetChosenBySecondCandidate ==
    (Called("_get_organic") /\ ret.res.ok) =>
        /\ Len(ret.res.val) = Len(tree.g)
        /\ \A i \in 1..Len(tree.g) :
              LET g == tree.g[i]
                  r == ret.res.val[i]
                  n == Len(g.snippets)
              IN  /\ n = 0 => r.snippet = Some(<<>>) /\ r.rich_snippet = Some(<<>>)
                  /\ n = 1 => r.snippet = CandidateText(g, 1) /\ r.rich_snippet = Some(<<>>)
                  /\ (n >= 2 /\ g.snippets[2].stars >= 1) =>
                        r.snippet = CandidateText(g, 1) /\ r.rich_snippet = CandidateText(g, 2)
                  /\ (n >= 2 /\ g.snippets[2].stars = 0) =>
                        r.snippet = CandidateText(g, 2) /\ r.rich_snippet = CandidateText(g, 1)

\* A result whose snippet is the second of two candidates without stars.
SecondCandidateIsSnippet ==
    /\ Called("_get_organic")
    /\ ret.res.ok
    /\ \E i \in 1..Len(tree.g) :
          /\ Len(tree.g[i].snippets) = 2
          /\ tree.g[i].snippets[1].stars = 1
          /\ tree.g[i].snippets[2].stars = 0
          /\ ret.res.val[i].snippet = Some(<<"b", " ", "b">>)
          /\ ret.res.val[i].rich_snippet = Some(<<"a">>)

\* C4 as stated: with one candidate it is the snippet and rich_snippet is
\* absent; with two, the first is the snippet and the second the
\* rich_snippet if the first holds fewer than two marker elements, and the
\* other way round otherwise.
SnippetChosenByFirstCandidate ==
    (Called("_get_organic") /\ ret.res.ok) =>
        \A i \in 1..Len(ret.res.val) :
            LET g == tree.g[i]
                r == ret.res.val[i]
                n == Len(g.snippets)
            IN  /\ n = 1 => r.snippet = CandidateText(g, 1) /\ IsAbsent(r.rich_snippet)
                /\ (n = 2 /\ g.snippets[1].stars < 2) =>
                      r.snippet = CandidateText(g, 1) /\ r.rich_snippet = CandidateText(g, 2)
                /\ (n = 2 /\ g.snippets[1].stars >= 2) =>
                      r.snippet = CandidateText(g, 2) /\ r.rich_snippet = CandidateText(g, 1)

\* C5: _get_featured_snippet never raises; when the first kp-blk block has a
\* heading text and a hyperlink it returns {title, url} with the first
\* heading text and the target of the LAST hyperlink of the block, and None
\* when there is no block or the block lacks either.
FeaturedSnippetTakesLastLink ==
    Called("_get_featured_snippet") =>
        /\ ret.res.ok
        /\ IF tree.kpblk # <<>> /\ tree.kpblk[1].h3 # <<>> /\ tree.kpblk[1].hrefs # <<>>
           THEN LET el == tree.kpblk[1]
                    fs == ret.res.val
                IN  /\ fs # None
                    /\ DOMAIN fs[1] = {"title", "url"}
                    /\ fs[1].title = el.h3[1]
                    /\ fs[1].url = el.hrefs[Len(el.hrefs)]
           ELSE ret.res.val = None

\* A featured snippet taken from a block with two different links.
FeaturedSnippetOfTwoLinks ==
    /\ Called("_get_featured_snippet")
    /\ tree.kpblk # <<>>
    /\ tree.kpblk[1].hrefs = <<<<"a">>, <<"b">>>>
    /\ ret.res.val # None
    /\ ret.res.val[1].url = <<"b">>

\* An attribute node of one of the two shapes that give a more_info entry.
HasShape(el) ==
    \/ Len(el.spans) = 2
    \/ Len(el.headings) > 0 /\ Len(el.headings[1].anchors) > 0

\* The text whose normalization is the key of a shaped attribute node.
KeyText(el) == IF Len(el.spans) = 2 THEN el.spans[1] ELSE el.headings[1].anchors[1]

\* C6: more_info is a sequence of single-key mappings in the document order
\* of the attribute nodes that give an entry, one entry per such node, so
\* two nodes whose headings normalize to the same key give two entries.
MoreInfoKeepsOrderAndDuplicates ==
    (Called("_get_knowledge_card") /\ ret.res.ok /\ ret.res.val # None) =>
        LET els == tree.kc[1].attrs
            more_info == ret.res.val[1].more_info
            shaped == {i \in 1..Len(els) : HasShape(els[i])}
            rank(i) == Cardinality({k \in shaped : k <= i})
        IN  /\ Len(more_info) = Cardinality(shaped)
            /\ \A i \in shaped :
                  /\ DOMAIN more_info[rank(i)] = {NormalizeDictKey(KeyText(els[i]))}
                  /\ Len(els[i].spans) = 2 =>
                        more_info[rank(i)][NormalizeDictKey(KeyText(els[i]))]
                            = [text |-> els[i].spans[2]]

\* A card whose more_info holds two entries of the same key, from headings
\* that differ as texts, with a node that gives no entry between them.
TwoEntriesOfOneKey ==
    /\ Called("_get_knowledge_card")
    /\ ret.res.ok
    /\ ret.res.val # None
    /\ Len(tree.kc[1].attrs) = 3
    /\ tree.kc[1].attrs[1].spans = <<TextBoColon, <<"x">>>>
    /\ ~HasShape(tree.kc[1].attrs[2])
    /\ tree.kc[1].attrs[3].spans = <<TextBo, <<"y">>>>
    /\ Len(ret.res.val[1].more_info) = 2
    /\ DOMAIN ret.res.val[1].more_info[1] = DOMAIN ret.res.val[1].more_info[2]

\* No white space at either end, no two white spaces in a row, no white
\* space but the space, and no character outside ASCII.
IsNormalized(s) == IsCollapsed(s) /\ \A i \in 1..Len(s) : IsAscii(s[i])

\* A text with a character that the normalizer keeps.
HasVisibleAscii(s) == \E i \in 1..Len(s) : IsAscii(s[i]) /\ ~IsSpace(s[i])

\* C7 as amended: in every result of _get_organic url, title, snippet and
\* rich_snippet are strings, never None, each in normalized form; url and
\* title are the normalized first hyperlink target and first heading text,
\* and are non-empty exactly when that source text holds an ASCII character
\* that is not white space.
OrganicFieldsAreNormalizedStrings ==
    (Called("_get_organic") /\ ret.res.ok) =>
        /\ Len(ret.res.val) = Len(tree.g)
        /\ \A i \in 1..Len(tree.g) :
              LET g == tree.g[i]
                  r == ret.res.val[i]
              IN  /\ \A f \in {"url", "title", "snippet", "rich_snippet"} :
                        r[f] # None /\ IsNormalized(r[f][1])
                  /\ r.url = Some(Clean(Some(g.hrefs[1])))
                  /\ r.title = Some(Clean(Some(g.h3[1])))
                  /\ r.url # Some(<<>>) <=> HasVisibleAscii(g.hrefs[1])
                  /\ r.title # Some(<<>>) <=> HasVisibleAscii(g.h3[1])

\* A result with an empty title from a heading whose text is not empty.
EmptyTitleFromHeading ==
    /\ Called("_get_organic")
    /\ ret.res.ok
    /\ \E i \in 1..Len(tree.g) :
          /\ tree.g[i].h3[1] = <<EACUTE>>
          /\ ret.res.val[i].title = Some(<<>>)

\* C7 as stated: every result of _get_organic has a url and a title that
\* are not empty, and a url, a title and a snippet that are not None.
OrganicUrlAndTitleNonEmpty ==
    (Called("_get_organic") /\ ret.res.ok) =>
        \A i \in 1..Len(ret.res.val) :
            LET r == ret.res.val[i]
            IN  /\ r.url # None /\ r.title # None /\ r.snippet # None
                /\ r.url # Some(<<>>)
                /\ r.title # Some(<<>>)

\* C8: no call changes the document tree or the user agent, and every call
\* of a method gives what the first call of that method gave, whatever was
\* called in between.
ExtractorsLeaveParserUnchanged ==
    /\ [][tree' = tree /\ user_agent' = user_agent]_vars
    /\ [](~Called("") => first[ret.call] = Some(ret.res))

\* Every method was called on one parser, _get_organic at the end.
AllMethodsCalled ==
    /\ \A m \in Methods : first[m] # None
    /\ Called("_get_organic")
    /\ tree.g # <<>>
    /\ first["get_data"][1].ok

=============================================================================
